---- MODULE Spec2Model ----
(***************************************************************************)
(* Array-backed lattice trees of andleb/common (trees.h, numeric.h):       *)
(* bTree (perfect binary tree, BFS order), recombinantBTree (binomial,     *)
(* triangular layout) and recombinantTTree (trinomial, square layout).     *)
(*                                                                         *)
(* The tree object is the pair (m_depth, m_data); m_data is modelled as a  *)
(* function on 0..size-1 so that indices read as in the source.  A call is *)
(* one step: it leaves its name, arguments, result and error in the call   *)
(* record (op, indS, indT, ret, err), and `pre` keeps m_data as it was     *)
(* when the call was entered.                                              *)
(***************************************************************************)
EXTENDS Integers, Sequences, FiniteSets

VARIABLES
    kind,     \* dynamic type of the tree: bTree, recombinantBTree, recombinantTTree
    m_depth,  \* bTree::m_depth (trees.h:129)
    m_data,   \* bTree::m_data (trees.h:130)
    op,       \* the member function called last ("construct" after the constructor)
    indS,     \* its first argument (ind / indS / level / node), -1 when it has none
    indT,     \* its second argument (indT), or the index a node-based operation
              \* passes to m_data[]; -1 when it has none
    ret,      \* what it returned: <<v>> for a value, the vector for a vector
    err,      \* what() of the std::range_error it threw, "none" when it returned
    ub,       \* whether it addressed m_data outside [0, size)
    writes,   \* the indices of m_data it assigned to, in the order of the stores
    pre,      \* m_data on entry to the call
    ncalls,   \* calls made on the tree so far
    pop,      \* the call before, kept when its result is this call's argument
    pind,     \* argument of that call
    pret,     \* result of that call
    perr,     \* error of that call
    \* the barriers of thread.h
    bkind,       \* class of the barrier: SpinLockBarrier, Barrier, FlexBarrier
    m_nThreads,  \* SpinLockBarrier::m_nThreads (thread.h:38)
    m_counter,   \* SpinLockBarrier::m_counter (thread.h:39)
    m_numResets, \* SpinLockBarrier::m_numResets (thread.h:40)
    m_func,      \* what FlexBarrier::m_func returns (thread.h:97)
    m_mutex,     \* Barrier::m_mutex: the thread that owns it, 0 when free
    m_condvar,   \* Barrier::m_condvar: the threads blocked in wait()
    pc,          \* per thread: the statement it executes next, "idle" outside a call
    call,        \* per thread: the member function it is in, "none" outside a call
    numResets,   \* per thread: the local numResets of arrive_and_wait
    loaded,      \* per thread: the value of m_nThreads.load() not yet stored
    arrivals,    \* per thread: times it was counted in m_counter
    returns,     \* per thread: calls of arrive_and_wait that returned
    dropped,     \* the threads that called arrive_and_drop
    invoked,     \* times FlexBarrier::m_func was invoked
    \* the StackContainer of stackcontainer.h
    s_N,      \* the N it was constructed with
    s_data,   \* StackContainer::m_data (stackcontainer.h:161)
    m_top,    \* StackContainer::m_top (stackcontainer.h:162); a negative value
              \* stands for the size_t it wraps to
    s_op,     \* the last call on the container, "construct" before the first
    s_arg,    \* the value of the push_back this call or, in back(), the call
              \* before it passed; -1 otherwise
    s_ret,    \* what back() returned: <<v>>
    s_err,    \* Terminated when the process was ended, "none" otherwise
    s_ub,     \* whether the call addressed m_data outside [0, size)
    held,     \* elements pushed and not popped
    within,   \* whether held stayed within 0..N in every call so far
    s_calls   \* calls made on the container so far

treeVars == <<kind, m_depth, m_data, op, indS, indT, ret, err, ub, writes, pre, ncalls,
              pop, pind, pret, perr>>

barrierVars == <<bkind, m_nThreads, m_counter, m_numResets, m_func, m_mutex, m_condvar,
                 pc, call, numResets, loaded, arrivals, returns, dropped, invoked>>

stackVars == <<s_N, s_data, m_top, s_op, s_arg, s_ret, s_err, s_ub, held, within, s_calls>>

vars == <<kind, m_depth, m_data, op, indS, indT, ret, err, ub, writes, pre, ncalls,
          pop, pind, pret, perr,
          bkind, m_nThreads, m_counter, m_numResets, m_func, m_mutex, m_condvar,
          pc, call, numResets, loaded, arrivals, returns, dropped, invoked,
          s_N, s_data, m_top, s_op, s_arg, s_ret, s_err, s_ub, held, within, s_calls>>

(***************************************************************************)
(* Bounds of the model.                                                    *)
(***************************************************************************)
\* deepest tree constructed in Spec (the data operations)
MaxDepth == 2
\* deepest tree constructed in SpecGeo (geometry and traversal only)
MaxGeoDepth == 4
\* Node values are 0..MaxNode
MaxNode == 1
\* number of calls made on one tree in Spec
MaxCalls == 2
\* threads taking part in a barrier, the p_nThreads of its constructor
NThreads == 2
\* calls of arrive_and_wait / arrive_and_drop made by one thread
MaxRounds == 2
\* largest N a StackContainer is constructed with
MaxStackSize == 2
\* number of calls made on one StackContainer
MaxStackCalls == 4

\* Node{}: the default-constructed ("empty") Node
Empty == 0
Nodes == 0..MaxNode

Kinds == {"bTree", "recombinantBTree", "recombinantTTree"}

\* outcome of a call: it returns v, or it throws std::range_error(msg).
\* A returned value is kept as a one-element sequence, so that it compares
\* with the index vectors other calls return.
Ret(v) == [err |-> "none", val |-> <<v>>]
Throw(msg) == [err |-> msg, val |-> <<>>]

ErrNotInTree == "Node not in tree"
\* no exception: the process was ended by a signal or by abort()
Terminated == "terminated"

ErrLeftBoundary == "The node corresponding to the index provided is on the left boundary!"
ErrRightBoundary == "The node corresponding to the index provided is on the right boundary!"
ErrCenterBoundary == "The node corresponding to the index provided is on the boundary & cannot go up!"
ErrSameLevel == "Source and target nodes must be on the same level!"

(***************************************************************************)
(* <cmath> on the values the trees pass: the arguments are small exact     *)
(* integers, where std::sqrt is correctly rounded and std::round and       *)
(* std::floor of the result are decided by integer comparisons.            *)
(***************************************************************************)
\* std::pow(2, e) for an integer e >= 0
RECURSIVE pow2(_)
pow2(e) == IF e = 0 THEN 1 ELSE 2 * pow2(e - 1)

\* std::floor(std::sqrt(m)): the r with r^2 <= m < (r+1)^2
floor_sqrt(m) == CHOOSE r \in 0..m : r * r <= m /\ m < (r + 1) * (r + 1)

\* std::round(std::sqrt(m) - 1), m >= 1: sqrt(m) - 1 rounds (half away from
\* zero) to r - 1 where (r - 1/2)^2 <= m < (r + 1/2)^2, i.e.
\* (2r-1)^2 <= 4m < (2r+1)^2
round_sqrt_minus_1(m) ==
    (CHOOSE r \in 0..m : (2 * r - 1) * (2 * r - 1) <= 4 * m /\ 4 * m < (2 * r + 1) * (2 * r + 1)) - 1

\* std::round(num / 2.0) for num >= 0: halves round away from zero
round_half(num) == (num + 1) \div 2

(***************************************************************************)
(* numeric.h                                                               *)
(***************************************************************************)
\* arithm_sum<size_t>(n, a1, d) = round(double(2*a1 + (n-1)*d) / 2 * n).
\* With n = 0 the size_t product (n-1)*d wraps, and 2*a1 + (n-1)*d wraps
\* back to 2*a1 - d; the integer expression below is that value.
arithm_sum(n, a1, d) == round_half((2 * a1 + (n - 1) * d) * n)

(***************************************************************************)
(* bTree geometry                                                          *)
(***************************************************************************)
bTree_numElems(level) == pow2(level + 1) - 1

bTree_goUp(ind) == IF ind = 0 THEN 0 ELSE (ind - 1) \div 2

\* (size_t)(0 - 1) / 2, what `(ind - 1) / 2` is for ind = 0: SIZE_MAX / 2,
\* which is 2^31 - 1 where size_t has 32 bits (2^63 - 1 where it has 64)
HalfSizeMax == 2147483647

\* bTree::goUp of btree.h, the revision without the test for the root
btree_h_goUp(ind) == IF ind = 0 THEN HalfSizeMax ELSE (ind - 1) \div 2

bTree_goDownLeft(ind) == 2 * ind + 1

bTree_goDownRight(ind) == 2 * ind + 2

(***************************************************************************)
(* recombinantBTree geometry                                               *)
(***************************************************************************)
\* variant: the square root is truncated instead of rounded
recombinantBTree_level_floor(ind) == floor_sqrt(1 + 2 * ind) - 1

recombinantBTree_level(ind) == round_sqrt_minus_1(1 + 2 * ind)

recombinantBTree_level_size(ind) == recombinantBTree_level(ind) + 1

recombinantBTree_left_boundary(level) == arithm_sum(level, 1, 1)

recombinantBTree_right_boundary(level) == arithm_sum(level + 1, 1, 1) - 1

\* variant: the sum taken over `level` terms, first term 2 (btree.h)
recombinantBTree_numElems_terms(level) == (level * (1 + level + 1)) \div 2

recombinantBTree_numElems(level) == arithm_sum(level + 1, 1, 1)

\* variant: the left-boundary test is missing
recombinantBTree_goUpLeft_unchecked(ind) == Ret(ind - recombinantBTree_level_size(ind))

recombinantBTree_goUpLeft(ind) ==
    IF ind = recombinantBTree_left_boundary(recombinantBTree_level(ind))
    THEN Throw(ErrLeftBoundary)
    ELSE Ret(ind - recombinantBTree_level_size(ind))

recombinantBTree_goUp(ind) == recombinantBTree_goUpLeft(ind)

\* variant: the + 1 of the right parent is missing
recombinantBTree_goUpRight_left(ind) ==
    IF ind = recombinantBTree_right_boundary(recombinantBTree_level(ind))
    THEN Throw(ErrRightBoundary)
    ELSE Ret(ind - recombinantBTree_level_size(ind))

recombinantBTree_goUpRight(ind) ==
    IF ind = recombinantBTree_right_boundary(recombinantBTree_level(ind))
    THEN Throw(ErrRightBoundary)
    ELSE Ret(ind - recombinantBTree_level_size(ind) + 1)

recombinantBTree_goDownLeft(ind) == ind + recombinantBTree_level_size(ind)

\* variant: the + 1 of the right child is missing
recombinantBTree_goDownRight_left(ind) == ind + recombinantBTree_level_size(ind)

recombinantBTree_goDownRight(ind) == ind + recombinantBTree_level_size(ind) + 1

\* the O(ind) count kept beside level() as its reference: the loop
\* while (counter < ind) { if (++counter == boundary) { level += 1; lsize += 1; boundary += lsize; } }
RECURSIVE brute_force_loop(_, _, _, _, _)
brute_force_loop(ind, counter, level, lsize, boundary) ==
    IF counter < ind
    THEN IF counter + 1 = boundary
         THEN brute_force_loop(ind, counter + 1, level + 1, lsize + 1, boundary + lsize + 1)
         ELSE brute_force_loop(ind, counter + 1, level, lsize, boundary)
    ELSE level

brute_force_level(ind) == brute_force_loop(ind, 0, 0, 1, 1)

(***************************************************************************)
(* recombinantTTree geometry                                               *)
(***************************************************************************)
\* variant: the binomial tree's formula used for the square layout
recombinantTTree_level_binomial(ind) == round_sqrt_minus_1(1 + 2 * ind)

recombinantTTree_level(ind) == floor_sqrt(ind)

recombinantTTree_level_size(ind) == 1 + 2 * recombinantTTree_level(ind)

recombinantTTree_left_boundary(level) == level * level

recombinantTTree_right_boundary(level) == (level + 1) * (level + 1) - 1

recombinantTTree_numElems(level) == (1 + level) * (1 + level)

\* variant: only the first index of the level is refused, as in the binomial tree
recombinantTTree_goUpLeft_first(ind) ==
    IF ind = recombinantTTree_left_boundary(recombinantTTree_level(ind))
    THEN Throw(ErrLeftBoundary)
    ELSE Ret(ind - recombinantTTree_level_size(ind))

recombinantTTree_goUpLeft(ind) ==
    IF \/ ind = recombinantTTree_left_boundary(recombinantTTree_level(ind))
       \/ ind = recombinantTTree_left_boundary(recombinantTTree_level(ind)) + 1
    THEN Throw(ErrLeftBoundary)
    ELSE Ret(ind - recombinantTTree_level_size(ind))

recombinantTTree_goUp(ind) == recombinantTTree_goUpLeft(ind)

recombinantTTree_goUpCenter(ind) ==
    IF \/ ind = recombinantTTree_left_boundary(recombinantTTree_level(ind))
       \/ ind = recombinantTTree_right_boundary(recombinantTTree_level(ind))
    THEN Throw(ErrCenterBoundary)
    ELSE Ret(ind - recombinantTTree_level_size(ind) + 1)

\* right_boundary(level(ind)) - 1 is size_t: on level 0 it wraps to SIZE_MAX,
\* which no index of the model equals, as -1 equals none here.
recombinantTTree_goUpRight(ind) ==
    IF \/ ind = recombinantTTree_right_boundary(recombinantTTree_level(ind))
       \/ ind = recombinantTTree_right_boundary(recombinantTTree_level(ind)) - 1
    THEN Throw(ErrRightBoundary)
    ELSE Ret(ind - recombinantTTree_level_size(ind) + 2)

recombinantTTree_goDownLeft(ind) == ind + recombinantTTree_level_size(ind)

\* variant: the + 1 of the center child is missing
recombinantTTree_goDownCenter_left(ind) == ind + recombinantTTree_level_size(ind)

recombinantTTree_goDownCenter(ind) == ind + recombinantTTree_level_size(ind) + 1

recombinantTTree_goDownRight(ind) == ind + recombinantTTree_level_size(ind) + 2

(***************************************************************************)
(* Virtual dispatch on the tree's dynamic type                             *)
(***************************************************************************)
\* the size the constructor of each class passes to m_data
numElems(k, level) ==
    CASE k = "bTree" -> bTree_numElems(level)
      [] k = "recombinantBTree" -> recombinantBTree_numElems(level)
      [] k = "recombinantTTree" -> recombinantTTree_numElems(level)

goUp(k, ind) ==
    CASE k = "bTree" -> Ret(bTree_goUp(ind))
      [] k = "recombinantBTree" -> recombinantBTree_goUp(ind)
      [] k = "recombinantTTree" -> recombinantTTree_goUp(ind)

goDownLeft(k, ind) ==
    CASE k = "bTree" -> bTree_goDownLeft(ind)
      [] k = "recombinantBTree" -> recombinantBTree_goDownLeft(ind)
      [] k = "recombinantTTree" -> recombinantTTree_goDownLeft(ind)

goDownRight(k, ind) ==
    CASE k = "bTree" -> bTree_goDownRight(ind)
      [] k = "recombinantBTree" -> recombinantBTree_goDownRight(ind)
      [] k = "recombinantTTree" -> recombinantTTree_goDownRight(ind)

\* m_data.size()
totalElems == Cardinality(DOMAIN m_data)

\* the indices a caller can address
Indices == 0..(totalElems - 1)

(***************************************************************************)
(* Subtree copies                                                          *)
(***************************************************************************)
\* m_data[indT] = m_data[indS] of copySubTree; when either index is past
\* the end the access is outside the array, which the array does not show
copied(data, s, t) ==
    IF s \in DOMAIN data /\ t \in DOMAIN data THEN [data EXCEPT ![t] = data[s]] ELSE data

\* variant: the descent to the right is missing
RECURSIVE copySubTree_rec_left_only(_, _, _, _, _)
copySubTree_rec_left_only(k, data, s, t, target_indices) ==
    LET size == Cardinality(DOMAIN data)
        d0 == copied(data, s, t)
        t0 == Append(target_indices, t)
        here == s \notin DOMAIN data \/ t \notin DOMAIN data
        sourceLeft == goDownLeft(k, s)
        targetLeft == goDownLeft(k, t)
    IN  IF sourceLeft < size /\ sourceLeft > 0 /\ targetLeft < size /\ targetLeft > 0
        THEN LET left == copySubTree_rec_left_only(k, d0, sourceLeft, targetLeft, t0)
             IN  [left EXCEPT !.ub = here \/ left.ub]
        ELSE [data |-> d0, target_indices |-> t0, ub |-> here]

\* variant: only the source's children are tested against m_data.size()
RECURSIVE copySubTree_rec_source_only(_, _, _, _, _)
copySubTree_rec_source_only(k, data, s, t, target_indices) ==
    LET size == Cardinality(DOMAIN data)
        d0 == copied(data, s, t)
        t0 == Append(target_indices, t)
        here == s \notin DOMAIN data \/ t \notin DOMAIN data
        sourceLeft == goDownLeft(k, s)
        targetLeft == goDownLeft(k, t)
        sourceRight == goDownRight(k, s)
        targetRight == goDownRight(k, t)
    IN  IF sourceLeft < size /\ sourceLeft > 0
        THEN LET left == copySubTree_rec_source_only(k, d0, sourceLeft, targetLeft, t0)
             IN  IF sourceRight < size /\ sourceRight > 0
                 THEN LET right == copySubTree_rec_source_only(k, left.data, sourceRight,
                                       targetRight, left.target_indices)
                      IN  [right EXCEPT !.ub = here \/ left.ub \/ right.ub]
                 ELSE [left EXCEPT !.ub = here \/ left.ub]
        ELSE [data |-> d0, target_indices |-> t0, ub |-> here]

\* bTree::copySubTree(indS, indT, target_indices), the in-place overload;
\* goDownLeft / goDownRight are the virtuals of the tree's dynamic type k.
\* ub tells whether some m_data[indS] or m_data[indT] of the recursion was
\* outside the array.
RECURSIVE copySubTree_rec(_, _, _, _, _)
copySubTree_rec(k, data, s, t, target_indices) ==
    LET size == Cardinality(DOMAIN data)
        d0 == copied(data, s, t)
        t0 == Append(target_indices, t)
        here == s \notin DOMAIN data \/ t \notin DOMAIN data
        sourceLeft == goDownLeft(k, s)
        targetLeft == goDownLeft(k, t)
        sourceRight == goDownRight(k, s)
        targetRight == goDownRight(k, t)
    IN  IF sourceLeft < size /\ sourceLeft > 0 /\ targetLeft < size /\ targetLeft > 0
        THEN LET left == copySubTree_rec(k, d0, sourceLeft, targetLeft, t0)
             IN  IF sourceRight < size /\ sourceRight > 0 /\ targetRight < size /\ targetRight > 0
                 THEN LET right == copySubTree_rec(k, left.data, sourceRight, targetRight,
                                                   left.target_indices)
                      IN  [right EXCEPT !.ub = here \/ left.ub \/ right.ub]
                 ELSE [left EXCEPT !.ub = here \/ left.ub]
        ELSE [data |-> d0, target_indices |-> t0, ub |-> here]

\* variant: an `if` in place of the `while`: only the level of indS is written
copySubTreeLeft_loop_once(data, l, g) ==
    LET last == recombinantBTree_right_boundary(l)
    IN  IF last < Cardinality(DOMAIN data)
        THEN [data EXCEPT ![last] = IF last - 1 \in DOMAIN data THEN data[last - 1] ELSE g]
        ELSE data

\* the while loop of recombinantBTree::copySubTreeLeft, entered with level l.
\* On level 0 last = 0 and m_data[last - 1] reads m_data[SIZE_MAX], outside
\* the array: the value read there is any Node, g.
RECURSIVE copySubTreeLeft_loop(_, _, _)
copySubTreeLeft_loop(data, l, g) ==
    LET last == recombinantBTree_right_boundary(l)
    IN  IF last < Cardinality(DOMAIN data)
        THEN copySubTreeLeft_loop(
                 [data EXCEPT ![last] = IF last - 1 \in DOMAIN data THEN data[last - 1] ELSE g],
                 l + 1, g)
        ELSE data

\* variant: the next level's source is its left boundary, the offset is dropped
RECURSIVE copySubTreeRight_loop_no_offset(_, _, _, _)
copySubTreeRight_loop_no_offset(data, l, offset, source) ==
    IF source < Cardinality(DOMAIN data)
    THEN copySubTreeRight_loop_no_offset(
             [i \in DOMAIN data |->
                 IF source + 1 <= i /\ i < recombinantBTree_left_boundary(l + 1)
                 THEN data[source] ELSE data[i]],
             l + 1, offset, recombinantBTree_left_boundary(l + 1))
    ELSE data

\* the while loop of recombinantBTree::copySubTreeRight: std::fill of
\* [source + 1, left_boundary(l + 1)) with m_data[source], level by level
RECURSIVE copySubTreeRight_loop(_, _, _, _)
copySubTreeRight_loop(data, l, offset, source) ==
    IF source < Cardinality(DOMAIN data)
    THEN copySubTreeRight_loop(
             [i \in DOMAIN data |->
                 IF source + 1 <= i /\ i < recombinantBTree_left_boundary(l + 1)
                 THEN data[source] ELSE data[i]],
             l + 1, offset, recombinantBTree_left_boundary(l + 1) + offset)
    ELSE data

\* the indices the while loop of recombinantBTree::copySubTreeLeft assigns to,
\* in order: `last`, once for every pass
RECURSIVE copySubTreeLeft_stores(_, _)
copySubTreeLeft_stores(size, l) ==
    LET last == recombinantBTree_right_boundary(l)
    IN  IF last < size THEN <<last>> \o copySubTreeLeft_stores(size, l + 1) ELSE <<>>

\* variant: std::fill up to and including `end`
RECURSIVE copySubTreeRight_stores_closed(_, _, _, _)
copySubTreeRight_stores_closed(size, l, offset, source) ==
    IF source < size
    THEN [i \in 1..(recombinantBTree_left_boundary(l + 1) - source) |-> source + i]
         \o copySubTreeRight_stores_closed(size, l + 1, offset,
                                           recombinantBTree_left_boundary(l + 1) + offset)
    ELSE <<>>

\* the indices the while loop of recombinantBTree::copySubTreeRight assigns to,
\* in order: std::fill stores to every element of [start, end)
RECURSIVE copySubTreeRight_stores(_, _, _, _)
copySubTreeRight_stores(size, l, offset, source) ==
    IF source < size
    THEN [i \in 1..(recombinantBTree_left_boundary(l + 1) - (source + 1)) |-> source + i]
         \o copySubTreeRight_stores(size, l + 1, offset,
                                    recombinantBTree_left_boundary(l + 1) + offset)
    ELSE <<>>

\* recombinantBTree::copySubTreeLeft(indS, indT), the public overload: what a
\* call can do to data.  The level test precedes the loop; on level 0 the
\* loop reads m_data[last - 1] with last = 0, which std::vector::operator[]
\* does not test: what it reads is any Node, or the process is ended there
\* (see Unchecked), before the first store.
copySubTreeLeft_call(data, s, t) ==
    IF recombinantBTree_level(s) # recombinantBTree_level(t)
    THEN {[data |-> data, err |-> ErrSameLevel, ub |-> FALSE, writes |-> <<>>]}
    ELSE LET l == recombinantBTree_level(s)
             below == recombinantBTree_right_boundary(l) = 0
         IN  {[data |-> copySubTreeLeft_loop(data, l, g), err |-> "none", ub |-> below,
               writes |-> copySubTreeLeft_stores(Cardinality(DOMAIN data), l)] :
                  g \in (IF below THEN Nodes ELSE {Empty})}
             \cup (IF below
                   THEN {[data |-> data, err |-> Terminated, ub |-> TRUE, writes |-> <<>>]}
                   ELSE {})

\* variant: the offset is taken from indT, the target, instead of indS
copySubTreeRight_call_target(data, s, t) ==
    IF recombinantBTree_level(s) # recombinantBTree_level(t)
    THEN {[data |-> data, err |-> ErrSameLevel, ub |-> FALSE, writes |-> <<>>]}
    ELSE LET l == recombinantBTree_level(s)
             offset == t - recombinantBTree_left_boundary(l)
         IN  {[data |-> copySubTreeRight_loop(data, l, offset, t), err |-> "none",
               ub |-> FALSE,
               writes |-> copySubTreeRight_stores(Cardinality(DOMAIN data), l, offset, t)]}

\* recombinantBTree::copySubTreeRight(indS, indT), the public overload
copySubTreeRight_call(data, s, t) ==
    IF recombinantBTree_level(s) # recombinantBTree_level(t)
    THEN {[data |-> data, err |-> ErrSameLevel, ub |-> FALSE, writes |-> <<>>]}
    ELSE LET l == recombinantBTree_level(s)
             offset == s - recombinantBTree_left_boundary(l)
         IN  {[data |-> copySubTreeRight_loop(data, l, offset, s), err |-> "none",
               ub |-> FALSE,
               writes |-> copySubTreeRight_stores(Cardinality(DOMAIN data), l, offset, s)]}

\* recombinantBTree::copySubTreeLeft(indS, indT, target_indices, pSeen), the
\* protected recursive overload.  pSeen holds the sources visited so far; the
\* descent (left, and the right one nested in it) is taken only when both
\* left children are in the array and targetLeft is not in pSeen.
RECURSIVE copySubTreeLeft_rec(_, _, _, _, _)
copySubTreeLeft_rec(data, s, t, target_indices, pSeen) ==
    LET size == Cardinality(DOMAIN data)
        d0 == copied(data, s, t)
        t0 == Append(target_indices, t)
        p0 == pSeen \cup {s}
        sourceLeft == recombinantBTree_goDownLeft(s)
        targetLeft == recombinantBTree_goDownLeft(t)
        sourceRight == recombinantBTree_goDownRight(s)
        targetRight == recombinantBTree_goDownRight(t)
    IN  IF /\ sourceLeft < size /\ sourceLeft > 0 /\ targetLeft < size /\ targetLeft > 0
           /\ targetLeft \notin p0
        THEN LET left == copySubTreeLeft_rec(d0, sourceLeft, targetLeft, t0, p0)
             IN  IF sourceRight < size /\ sourceRight > 0 /\ targetRight < size /\ targetRight > 0
                 THEN copySubTreeLeft_rec(left.data, sourceRight, targetRight,
                                          left.target_indices, left.pSeen)
                 ELSE left
        ELSE [data |-> d0, target_indices |-> t0, pSeen |-> p0]

\* variant: no descent from a node whose left target was already written
RECURSIVE copySubTreeRight_rec_once(_, _, _, _)
copySubTreeRight_rec_once(data, s, t, target_indices) ==
    LET size == Cardinality(DOMAIN data)
        d0 == copied(data, s, t)
        t0 == Append(target_indices, t)
        sourceLeft == recombinantBTree_goDownLeft(s)
        targetLeft == recombinantBTree_goDownLeft(t)
        sourceRight == recombinantBTree_goDownRight(s)
        targetRight == recombinantBTree_goDownRight(t)
    IN  IF /\ sourceLeft < size /\ sourceLeft > 0 /\ targetLeft < size /\ targetLeft > 0
           /\ \A i \in DOMAIN t0 : t0[i] # targetLeft
        THEN LET left == copySubTreeRight_rec_once(d0, sourceLeft, targetLeft, t0)
             IN  IF sourceRight < size /\ sourceRight > 0 /\ targetRight < size /\ targetRight > 0
                 THEN copySubTreeRight_rec_once(left.data, sourceRight, targetRight,
                                                left.target_indices)
                 ELSE left
        ELSE [data |-> d0, target_indices |-> t0]

\* recombinantBTree::copySubTreeRight(indS, indT, target_indices), the
\* protected recursive overload: every target is overwritten
RECURSIVE copySubTreeRight_rec(_, _, _, _)
copySubTreeRight_rec(data, s, t, target_indices) ==
    LET size == Cardinality(DOMAIN data)
        d0 == copied(data, s, t)
        t0 == Append(target_indices, t)
        sourceLeft == recombinantBTree_goDownLeft(s)
        targetLeft == recombinantBTree_goDownLeft(t)
        sourceRight == recombinantBTree_goDownRight(s)
        targetRight == recombinantBTree_goDownRight(t)
    IN  IF sourceLeft < size /\ sourceLeft > 0 /\ targetLeft < size /\ targetLeft > 0
        THEN LET left == copySubTreeRight_rec(d0, sourceLeft, targetLeft, t0)
             IN  IF sourceRight < size /\ sourceRight > 0 /\ targetRight < size /\ targetRight > 0
                 THEN copySubTreeRight_rec(left.data, sourceRight, targetRight,
                                           left.target_indices)
                 ELSE left
        ELSE [data |-> d0, target_indices |-> t0]

(***************************************************************************)
(* Lookup by value                                                         *)
(***************************************************************************)
\* variant: the scan keeps the last match, not the first
RECURSIVE find_last(_, _, _)
find_last(data, first, node) ==
    LET last == Cardinality(DOMAIN data)
    IN  IF first = last
        THEN last
        ELSE LET rest == find_last(data, first + 1, node)
             IN  IF rest # last THEN rest
                 ELSE IF data[first] = node THEN first ELSE last

\* std::find(m_data.begin() + first, m_data.end(), node) as an offset from
\* begin(); end() is the offset size()
RECURSIVE find(_, _, _)
find(data, first, node) ==
    LET last == Cardinality(DOMAIN data)
    IN  IF first = last
        THEN last
        ELSE IF data[first] = node THEN first ELSE find(data, first + 1, node)

\* bTree::node2Ind(node)
node2Ind(data, node) ==
    LET el == find(data, 0, node)
    IN  IF el # Cardinality(DOMAIN data) THEN Ret(el) ELSE Throw(ErrNotInTree)

\* the index the const parent(node) of class k passes to m_data[]:
\* goUp in bTree, goUpLeft (through parentLeft) in the recombinant trees
parent_index(k, ind) ==
    CASE k = "bTree" -> Ret(bTree_goUp(ind))
      [] k = "recombinantBTree" -> recombinantBTree_goUpLeft(ind)
      [] k = "recombinantTTree" -> recombinantTTree_goUpLeft(ind)

(***************************************************************************)
(* Construction                                                            *)
(***************************************************************************)
\* bTree(depth) / recombinantBTree(depth) / recombinantTTree(depth):
\* m_depth(depth), m_data(numElems(depth)) value-initialised to Node{}
Construct(maxDepth) ==
    /\ kind \in Kinds
    /\ m_depth \in 0..maxDepth
    /\ m_data = [i \in 0..(numElems(kind, m_depth) - 1) |-> Empty]
    /\ op = "construct"
    /\ indS = -1
    /\ indT = -1
    /\ ret = <<>>
    /\ err = "none"
    /\ ub = FALSE
    /\ writes = <<>>
    /\ pre = m_data
    /\ ncalls = 0
    /\ pop = "none"
    /\ pind = -1
    /\ pret = <<>>
    /\ perr = "none"

\* no barrier is constructed in the specifications of the trees
NoBarrier ==
    /\ bkind = "none"
    /\ m_nThreads = 0
    /\ m_counter = 0
    /\ m_numResets = 0
    /\ m_func = -1
    /\ m_mutex = 0
    /\ m_condvar = {}
    /\ pc = <<>>
    /\ call = <<>>
    /\ numResets = <<>>
    /\ loaded = <<>>
    /\ arrivals = <<>>
    /\ returns = <<>>
    /\ dropped = {}
    /\ invoked = 0

\* no StackContainer is constructed in the specifications of the trees and
\* of the barriers
NoStack ==
    /\ s_N = 0
    /\ s_data = <<>>
    /\ m_top = 0
    /\ s_op = "none"
    /\ s_arg = -1
    /\ s_ret = <<>>
    /\ s_err = "none"
    /\ s_ub = FALSE
    /\ held = 0
    /\ within = TRUE
    /\ s_calls = 0

Init == Construct(MaxDepth) /\ NoBarrier /\ NoStack

InitGeo == Construct(MaxGeoDepth) /\ NoBarrier /\ NoStack

(***************************************************************************)
(* Spec: the operations that read and write m_data.  The caller makes one  *)
(* call at a time (Callable), at most MaxCalls of them, and takes the      *)
(* result before the next call (Return).                                   *)
(***************************************************************************)
Callable == op \in {"construct", "idle"} /\ ncalls < MaxCalls

\* the call record of a call that ran to its end or threw, w the indices of
\* m_data it stored to
Stores(name, s, t, data, r, e, u, w) ==
    /\ op' = name
    /\ indS' = s
    /\ indT' = t
    /\ m_data' = data
    /\ ret' = r
    /\ err' = e
    /\ ub' = u
    /\ writes' = w
    /\ pre' = m_data
    /\ ncalls' = ncalls + 1
    /\ UNCHANGED <<kind, m_depth, pop, pind, pret, perr>>
    /\ UNCHANGED barrierVars
    /\ UNCHANGED stackVars

\* the call record of a call that stored nothing
Called(name, s, t, data, r, e, u) ==
    /\ op' = name
    /\ indS' = s
    /\ indT' = t
    /\ m_data' = data
    /\ ret' = r
    /\ err' = e
    /\ ub' = u
    /\ writes' = <<>>
    /\ pre' = m_data
    /\ ncalls' = ncalls + 1
    /\ UNCHANGED <<kind, m_depth, pop, pind, pret, perr>>
    /\ UNCHANGED barrierVars
    /\ UNCHANGED stackVars

\* m_data[ind] is std::vector::operator[], which does not test ind.  With
\* ind < size() it succeeds.  With ind >= size() the behaviour is undefined:
\* the call goes on with the address past the array, or the process is
\* ended (a fault, or abort() in a build with library assertions); no
\* exception is thrown in either case.
Unchecked(ind) == IF ind \in DOMAIN m_data THEN {"none"} ELSE {"none", Terminated}

\* m_data after m_data[ind] = node; a store past the end is not in m_data
Stored(ind, node) ==
    IF ind \in DOMAIN m_data THEN [m_data EXCEPT ![ind] = node] ELSE m_data

\* bTree::insert(ind, node): m_data[ind] = node
Insert(ind, node) ==
    /\ Callable
    /\ \E e \in Unchecked(ind) :
           Stores("insert", ind, -1, IF e = "none" THEN Stored(ind, node) ELSE m_data,
                  <<>>, e, ind \notin DOMAIN m_data,
                  IF e = "none" THEN <<ind>> ELSE <<>>)

\* bTree::remove(ind): m_data[ind] = Node{}
Remove(ind) ==
    /\ Callable
    /\ \E e \in Unchecked(ind) :
           Stores("remove", ind, -1, IF e = "none" THEN Stored(ind, Empty) ELSE m_data,
                  <<>>, e, ind \notin DOMAIN m_data,
                  IF e = "none" THEN <<ind>> ELSE <<>>)

\* tree[ind] = node through Node & bTree::operator[](ind)
IndexWrite(ind, node) ==
    /\ Callable
    /\ \E e \in Unchecked(ind) :
           Stores("operator[]", ind, -1, IF e = "none" THEN Stored(ind, node) ELSE m_data,
                  <<>>, e, ind \notin DOMAIN m_data,
                  IF e = "none" THEN <<ind>> ELSE <<>>)

\* bTree::copySubTree(indS, indT), inherited by the recombinant trees
CopySubTree(s, t) ==
    /\ Callable
    /\ LET r == copySubTree_rec(kind, m_data, s, t, <<>>)
       IN  Stores("copySubTree", s, t, r.data, r.target_indices, "none", r.ub,
                  r.target_indices)

\* recombinantBTree::copySubTreeLeft(indS, indT); ret stays the empty vector
CopySubTreeLeft(s, t) ==
    /\ Callable
    /\ kind = "recombinantBTree"
    /\ \E o \in copySubTreeLeft_call(m_data, s, t) :
           Stores("copySubTreeLeft", s, t, o.data, <<>>, o.err, o.ub, o.writes)

\* variant: the level test follows the loop instead of preceding it
CopySubTreeRight_late_check(s, t) ==
    /\ Callable
    /\ kind = "recombinantBTree"
    /\ LET l == recombinantBTree_level(s)
           offset == s - recombinantBTree_left_boundary(l)
           written == copySubTreeRight_loop(m_data, l, offset, s)
       IN  IF recombinantBTree_level(s) # recombinantBTree_level(t)
           THEN Called("copySubTreeRight", s, t, written, <<>>, ErrSameLevel, FALSE)
           ELSE Called("copySubTreeRight", s, t, written, <<>>, "none", FALSE)

\* recombinantBTree::copySubTreeRight(indS, indT); ret stays the empty vector
CopySubTreeRight(s, t) ==
    /\ Callable
    /\ kind = "recombinantBTree"
    /\ \E o \in copySubTreeRight_call(m_data, s, t) :
           Stores("copySubTreeRight", s, t, o.data, <<>>, o.err, o.ub, o.writes)

\* the caller has the result (or has caught the exception) and goes on
Return ==
    /\ op \notin {"construct", "idle"}
    /\ err # Terminated
    /\ op' = "idle"
    /\ indS' = -1
    /\ indT' = -1
    /\ ret' = <<>>
    /\ err' = "none"
    /\ ub' = FALSE
    /\ writes' = <<>>
    /\ pre' = m_data
    /\ UNCHANGED <<kind, m_depth, m_data, ncalls, pop, pind, pret, perr>>
    /\ UNCHANGED barrierVars
    /\ UNCHANGED stackVars

Next ==
    \/ \E ind \in Indices, node \in Nodes : Insert(ind, node)
    \/ \E ind \in Indices : Remove(ind)
    \/ \E ind \in Indices, node \in Nodes : IndexWrite(ind, node)
    \/ \E s \in Indices, t \in Indices : CopySubTree(s, t)
    \/ \E s \in Indices, t \in Indices : CopySubTreeLeft(s, t)
    \/ \E s \in Indices, t \in Indices : CopySubTreeRight(s, t)
    \/ Return

Spec == Init /\ [][Next]_vars

(***************************************************************************)
(* SpecOracle: the binomial tree with its two pairs of subtree copies, the *)
(* public non-recursive overloads and the protected recursive overloads    *)
(* they replaced (trees.h:664-731), callable from a derived class.         *)
(***************************************************************************)
InitOracle == Construct(MaxDepth) /\ kind = "recombinantBTree" /\ NoBarrier /\ NoStack

\* copySubTreeLeft(indS, indT, target_indices, nullptr) on an empty
\* target_indices; the vector it fills is kept in ret
CopySubTreeLeftRec(s, t) ==
    /\ Callable
    /\ kind = "recombinantBTree"
    /\ LET r == copySubTreeLeft_rec(m_data, s, t, <<>>, {})
       IN  Stores("copySubTreeLeft:rec", s, t, r.data, r.target_indices, "none", FALSE,
                  r.target_indices)

\* copySubTreeRight(indS, indT, target_indices) on an empty target_indices
CopySubTreeRightRec(s, t) ==
    /\ Callable
    /\ kind = "recombinantBTree"
    /\ LET r == copySubTreeRight_rec(m_data, s, t, <<>>)
       IN  Stores("copySubTreeRight:rec", s, t, r.data, r.target_indices, "none", FALSE,
                  r.target_indices)

NextOracle ==
    \/ \E ind \in Indices, node \in Nodes : Insert(ind, node)
    \/ \E s \in Indices, t \in Indices : CopySubTree(s, t)
    \/ \E s \in Indices, t \in Indices : CopySubTreeLeft(s, t)
    \/ \E s \in Indices, t \in Indices : CopySubTreeRight(s, t)
    \/ \E s \in Indices, t \in Indices : CopySubTreeLeftRec(s, t)
    \/ \E s \in Indices, t \in Indices : CopySubTreeRightRec(s, t)
    \/ Return

SpecOracle == InitOracle /\ [][NextOracle]_vars

(***************************************************************************)
(* SpecAccess: element access with any index up to the first one past the  *)
(* end, and the node-based operations.  A Node & is kept as the index of   *)
(* the slot it refers to.                                                  *)
(***************************************************************************)
\* bTree::node2Ind(node)
Node2Ind(node) ==
    /\ Callable
    /\ LET n == node2Ind(m_data, node)
       IN  Called("node2Ind", node, -1, m_data, n.val, n.err, FALSE)

\* `return m_data[i]` of a node-based operation, i being the outcome of
\* the index computation; indT records the index passed to m_data[]
NodeRef(name, node, i) ==
    IF i.err # "none"
    THEN Called(name, node, -1, m_data, <<>>, i.err, FALSE)
    ELSE \E e \in Unchecked(i.val[1]) :
             Called(name, node, i.val[1], m_data, IF e = "none" THEN i.val ELSE <<>>,
                    e, i.val[1] \notin DOMAIN m_data)

\* parent(node), the override of the tree's class
Parent(node) ==
    /\ Callable
    /\ LET n == node2Ind(m_data, node)
       IN  NodeRef("parent", node,
                   IF n.err # "none" THEN n ELSE parent_index(kind, n.val[1]))

\* bTree::leftchild(node)
Leftchild(node) ==
    /\ Callable
    /\ LET n == node2Ind(m_data, node)
       IN  NodeRef("leftchild", node,
                   IF n.err # "none" THEN n ELSE Ret(goDownLeft(kind, n.val[1])))

\* bTree::rightchild(node)
Rightchild(node) ==
    /\ Callable
    /\ LET n == node2Ind(m_data, node)
       IN  NodeRef("rightchild", node,
                   IF n.err # "none" THEN n ELSE Ret(goDownRight(kind, n.val[1])))

\* the indices of the tree and the first index past the end
Addressed == 0..totalElems

NextAccess ==
    \/ \E ind \in Addressed, node \in Nodes : Insert(ind, node)
    \/ \E ind \in Addressed : Remove(ind)
    \/ \E ind \in Addressed, node \in Nodes : IndexWrite(ind, node)
    \/ \E node \in Nodes : Node2Ind(node)
    \/ \E node \in Nodes : Parent(node)
    \/ \E node \in Nodes : Leftchild(node)
    \/ \E node \in Nodes : Rightchild(node)
    \/ Return

SpecAccess == Init /\ [][NextAccess]_vars

(***************************************************************************)
(* SpecGeo: the index transforms, which read no Node.  A caller walks the  *)
(* tree by index; when a call's argument is the index the previous call    *)
(* returned, (pop, pind, pret, perr) keeps that previous call.             *)
(***************************************************************************)
GeoCalled(name, ind, r) ==
    /\ op' = name
    /\ indS' = ind
    /\ ret' = r.val
    /\ err' = r.err
    /\ IF err = "none" /\ ret = <<ind>>
       THEN pop' = op /\ pind' = indS /\ pret' = ret /\ perr' = err
       ELSE pop' = "none" /\ pind' = -1 /\ pret' = <<>> /\ perr' = "none"
    /\ UNCHANGED <<kind, m_depth, m_data, indT, ub, writes, pre, ncalls>>
    /\ UNCHANGED barrierVars
    /\ UNCHANGED stackVars

\* recombinantBTree::level / recombinantTTree::level (static)
Level(ind) ==
    /\ kind # "bTree"
    /\ GeoCalled("level", ind,
                 Ret(IF kind = "recombinantBTree" THEN recombinantBTree_level(ind)
                                                  ELSE recombinantTTree_level(ind)))

\* level_size (static)
LevelSize(ind) ==
    /\ kind # "bTree"
    /\ GeoCalled("level_size", ind,
                 Ret(IF kind = "recombinantBTree" THEN recombinantBTree_level_size(ind)
                                                  ELSE recombinantTTree_level_size(ind)))

\* left_boundary (static)
LeftBoundary(level) ==
    /\ kind # "bTree"
    /\ GeoCalled("left_boundary", level,
                 Ret(IF kind = "recombinantBTree" THEN recombinantBTree_left_boundary(level)
                                                  ELSE recombinantTTree_left_boundary(level)))

\* right_boundary (static)
RightBoundary(level) ==
    /\ kind # "bTree"
    /\ GeoCalled("right_boundary", level,
                 Ret(IF kind = "recombinantBTree" THEN recombinantBTree_right_boundary(level)
                                                  ELSE recombinantTTree_right_boundary(level)))

\* virtual goUp
GoUp(ind) == GeoCalled("goUp", ind, goUp(kind, ind))

\* bTree::goUp as btree.h defines it
GoUpBtreeH(ind) ==
    /\ kind = "bTree"
    /\ GeoCalled("btree.h:goUp", ind, Ret(btree_h_goUp(ind)))

GoUpLeft(ind) ==
    /\ kind # "bTree"
    /\ GeoCalled("goUpLeft", ind,
                 IF kind = "recombinantBTree" THEN recombinantBTree_goUpLeft(ind)
                                              ELSE recombinantTTree_goUpLeft(ind))

GoUpCenter(ind) ==
    /\ kind = "recombinantTTree"
    /\ GeoCalled("goUpCenter", ind, recombinantTTree_goUpCenter(ind))

GoUpRight(ind) ==
    /\ kind # "bTree"
    /\ GeoCalled("goUpRight", ind,
                 IF kind = "recombinantBTree" THEN recombinantBTree_goUpRight(ind)
                                              ELSE recombinantTTree_goUpRight(ind))

\* virtual goDownLeft
GoDownLeft(ind) == GeoCalled("goDownLeft", ind, Ret(goDownLeft(kind, ind)))

GoDownCenter(ind) ==
    /\ kind = "recombinantTTree"
    /\ GeoCalled("goDownCenter", ind, Ret(recombinantTTree_goDownCenter(ind)))

\* virtual goDownRight
GoDownRight(ind) == GeoCalled("goDownRight", ind, Ret(goDownRight(kind, ind)))

\* the levels of the tree, and one below the deepest
Levels == 0..(m_depth + 1)

NextGeo ==
    \/ \E ind \in Indices : Level(ind)
    \/ \E ind \in Indices : LevelSize(ind)
    \/ \E level \in Levels : LeftBoundary(level)
    \/ \E level \in Levels : RightBoundary(level)
    \/ \E ind \in Indices : GoUp(ind)
    \/ \E ind \in Indices : GoUpBtreeH(ind)
    \/ \E ind \in Indices : GoUpLeft(ind)
    \/ \E ind \in Indices : GoUpCenter(ind)
    \/ \E ind \in Indices : GoUpRight(ind)
    \/ \E ind \in Indices : GoDownLeft(ind)
    \/ \E ind \in Indices : GoDownCenter(ind)
    \/ \E ind \in Indices : GoDownRight(ind)

SpecGeo == InitGeo /\ [][NextGeo]_vars

(***************************************************************************)
(* SpecBarrier: SpinLockBarrier, Barrier and FlexBarrier (thread.cpp).     *)
(* NThreads threads share one barrier constructed for NThreads.  Every     *)
(* access to an atomic member, to the mutex or to the condition variable   *)
(* is one step of the thread that makes it.  m_nThreads and m_counter are  *)
(* atomic_uint: -1 would stand for UINT_MAX.                               *)
(***************************************************************************)
Threads == 1..NThreads

BarrierKinds == {"SpinLockBarrier", "Barrier", "FlexBarrier"}

\* values the completion function of a FlexBarrier returns: -1 keeps the
\* number of threads, r >= 0 sets it
FuncReturns == -1..NThreads

\* no tree is constructed in the specification of the barriers
NoTree ==
    /\ kind = "none"
    /\ m_depth = 0
    /\ m_data = <<>>
    /\ op = "construct"
    /\ indS = -1
    /\ indT = -1
    /\ ret = <<>>
    /\ err = "none"
    /\ ub = FALSE
    /\ writes = <<>>
    /\ pre = <<>>
    /\ ncalls = 0
    /\ pop = "none"
    /\ pind = -1
    /\ pret = <<>>
    /\ perr = "none"

\* SpinLockBarrier(p_nThreads), Barrier(p_nThreads), FlexBarrier(p_nThreads)
\* and FlexBarrier(p_nThreads, func)
InitBarrier ==
    /\ NoTree
    /\ NoStack
    /\ bkind \in BarrierKinds
    /\ m_nThreads = NThreads
    /\ m_counter = m_nThreads
    /\ m_numResets = 0
    /\ m_func \in (IF bkind = "FlexBarrier" THEN FuncReturns ELSE {-1})
    /\ m_mutex = 0
    /\ m_condvar = {}
    /\ pc = [t \in Threads |-> "idle"]
    /\ call = [t \in Threads |-> "none"]
    /\ numResets = [t \in Threads |-> 0]
    /\ loaded = [t \in Threads |-> 0]
    /\ arrivals = [t \in Threads |-> 0]
    /\ returns = [t \in Threads |-> 0]
    /\ dropped = {}
    /\ invoked = 0

\* a thread is between two calls and has calls left to make; a thread that
\* dropped out does not arrive again (thread.h:34)
CanCall(t) == pc[t] = "idle" /\ t \notin dropped /\ arrivals[t] < MaxRounds

\* thread t goes to statement l
Goto(t, l) == pc' = [pc EXCEPT ![t] = l]

\* thread t returns from the call it is in
Leave(t) ==
    /\ pc' = [pc EXCEPT ![t] = "idle"]
    /\ call' = [call EXCEPT ![t] = "none"]
    /\ returns' = [returns EXCEPT ![t] = IF call[t] = "arrive_and_wait" THEN @ + 1 ELSE @]

\* variant: the thread before the last already takes itself for the last
IsLast_early(c) == c <= 1

\* `--m_counter == 0`, c being the value after the decrement
IsLast(c) == c = 0

\* the wait predicate `numResets != m_numResets` and the negated spin test
Released(t) == numResets[t] # m_numResets

\* arrive_and_wait(): the call and `if (m_nThreads == 0) return;`
ArriveAndWait(t) ==
    /\ CanCall(t)
    /\ IF m_nThreads = 0
       THEN /\ arrivals' = [arrivals EXCEPT ![t] = @ + 1]
            /\ returns' = [returns EXCEPT ![t] = @ + 1]
            /\ UNCHANGED <<pc, call>>
       ELSE /\ Goto(t, "aw_resets")
            /\ call' = [call EXCEPT ![t] = "arrive_and_wait"]
            /\ UNCHANGED <<arrivals, returns>>
    /\ UNCHANGED <<invoked, bkind, m_nThreads, m_counter, m_numResets, m_func, m_mutex, m_condvar,
                   numResets, loaded, dropped>>
    /\ UNCHANGED treeVars
    /\ UNCHANGED stackVars

\* size_t numResets = m_numResets;
LoadResets(t) ==
    /\ pc[t] = "aw_resets"
    /\ numResets' = [numResets EXCEPT ![t] = m_numResets]
    /\ Goto(t, "aw_dec")
    /\ UNCHANGED <<invoked, bkind, m_nThreads, m_counter, m_numResets, m_func, m_mutex, m_condvar,
                   call, loaded, arrivals, returns, dropped>>
    /\ UNCHANGED treeVars
    /\ UNCHANGED stackVars

\* the first statement of the release: release() in FlexBarrier, the
\* m_nThreads.load() of `m_counter = m_nThreads.load()` in the others
ReleaseEntry == IF bkind = "FlexBarrier" THEN "rel_func" ELSE "rel_load"

\* `if (--m_counter == 0)` of arrive_and_wait: the last thread goes on to
\* release, the others to the spin loop or to lk.lock()
DecCounterWait(t) ==
    /\ pc[t] = "aw_dec"
    /\ m_counter' = m_counter - 1
    /\ arrivals' = [arrivals EXCEPT ![t] = @ + 1]
    /\ IF IsLast(m_counter - 1)
       THEN Goto(t, ReleaseEntry)
       ELSE Goto(t, IF bkind = "SpinLockBarrier" THEN "aw_spin" ELSE "aw_lock")
    /\ UNCHANGED <<invoked, bkind, m_nThreads, m_numResets, m_func, m_mutex, m_condvar,
                   call, numResets, loaded, returns, dropped>>
    /\ UNCHANGED treeVars
    /\ UNCHANGED stackVars

\* while (numResets == m_numResets) std::this_thread::yield();
Spin(t) ==
    /\ pc[t] = "aw_spin"
    /\ Released(t)
    /\ Leave(t)
    /\ UNCHANGED <<invoked, bkind, m_nThreads, m_counter, m_numResets, m_func, m_mutex, m_condvar,
                   numResets, loaded, arrivals, dropped>>
    /\ UNCHANGED treeVars
    /\ UNCHANGED stackVars

\* lk.lock(), and the re-locking of lk when wait() is woken
Lock(t) ==
    /\ pc[t] = "aw_lock"
    /\ m_mutex = 0
    /\ m_mutex' = t
    /\ Goto(t, "aw_pred")
    /\ UNCHANGED <<invoked, bkind, m_nThreads, m_counter, m_numResets, m_func, m_condvar,
                   call, numResets, loaded, arrivals, returns, dropped>>
    /\ UNCHANGED treeVars
    /\ UNCHANGED stackVars

\* m_condvar.wait(lk, pred) evaluates pred() with lk held
Pred(t) ==
    /\ pc[t] = "aw_pred"
    /\ Goto(t, IF Released(t) THEN "aw_unlock" ELSE "aw_wait")
    /\ UNCHANGED <<invoked, bkind, m_nThreads, m_counter, m_numResets, m_func, m_mutex, m_condvar,
                   call, numResets, loaded, arrivals, returns, dropped>>
    /\ UNCHANGED treeVars
    /\ UNCHANGED stackVars

\* pred() was false: wait(lk) releases lk and blocks the thread, atomically
Wait(t) ==
    /\ pc[t] = "aw_wait"
    /\ m_mutex' = 0
    /\ m_condvar' = m_condvar \cup {t}
    /\ Goto(t, "aw_blocked")
    /\ UNCHANGED <<invoked, bkind, m_nThreads, m_counter, m_numResets, m_func,
                   call, numResets, loaded, arrivals, returns, dropped>>
    /\ UNCHANGED treeVars
    /\ UNCHANGED stackVars

\* lk.unlock(); and the return of arrive_and_wait
Unlock(t) ==
    /\ pc[t] = "aw_unlock"
    /\ m_mutex' = 0
    /\ Leave(t)
    /\ UNCHANGED <<invoked, bkind, m_nThreads, m_counter, m_numResets, m_func, m_condvar,
                   numResets, loaded, arrivals, dropped>>
    /\ UNCHANGED treeVars
    /\ UNCHANGED stackVars

\* arrive_and_drop(): the call and `if (m_nThreads == 0) return;`
ArriveAndDrop(t) ==
    /\ CanCall(t)
    /\ dropped' = dropped \cup {t}
    /\ IF m_nThreads = 0
       THEN /\ arrivals' = [arrivals EXCEPT ![t] = @ + 1]
            /\ UNCHANGED <<pc, call>>
       ELSE /\ Goto(t, "ad_threads")
            /\ call' = [call EXCEPT ![t] = "arrive_and_drop"]
            /\ UNCHANGED arrivals
    /\ UNCHANGED <<invoked, bkind, m_nThreads, m_counter, m_numResets, m_func, m_mutex, m_condvar,
                   numResets, loaded, returns>>
    /\ UNCHANGED treeVars
    /\ UNCHANGED stackVars

\* variant: the number of threads is not lowered
DropThreads_keep(t) ==
    /\ pc[t] = "ad_threads"
    /\ Goto(t, "ad_dec")
    /\ UNCHANGED <<invoked, bkind, m_nThreads, m_counter, m_numResets, m_func, m_mutex, m_condvar,
                   call, numResets, loaded, arrivals, returns, dropped>>
    /\ UNCHANGED treeVars
    /\ UNCHANGED stackVars

\* --m_nThreads;
DropThreads(t) ==
    /\ pc[t] = "ad_threads"
    /\ m_nThreads' = m_nThreads - 1
    /\ Goto(t, "ad_dec")
    /\ UNCHANGED <<invoked, bkind, m_counter, m_numResets, m_func, m_mutex, m_condvar,
                   call, numResets, loaded, arrivals, returns, dropped>>
    /\ UNCHANGED treeVars
    /\ UNCHANGED stackVars

\* `if (--m_counter == 0)` of arrive_and_drop: the last thread goes on to
\* release, the others return
DecCounterDrop(t) ==
    /\ pc[t] = "ad_dec"
    /\ m_counter' = m_counter - 1
    /\ arrivals' = [arrivals EXCEPT ![t] = @ + 1]
    /\ IF IsLast(m_counter - 1)
       THEN Goto(t, ReleaseEntry) /\ UNCHANGED <<call, returns>>
       ELSE Leave(t)
    /\ UNCHANGED <<invoked, bkind, m_nThreads, m_numResets, m_func, m_mutex, m_condvar,
                   numResets, loaded, dropped>>
    /\ UNCHANGED treeVars
    /\ UNCHANGED stackVars

\* variant: `if (ret > 0)`: a return of 0 leaves m_nThreads as it is
FlexFunc_positive(t) ==
    /\ pc[t] = "rel_func"
    /\ m_nThreads' = IF m_func > 0 THEN m_func ELSE m_nThreads
    /\ invoked' = invoked + 1
    /\ Goto(t, "rel_load")
    /\ UNCHANGED <<bkind, m_counter, m_numResets, m_func, m_mutex, m_condvar,
                   call, numResets, loaded, arrivals, returns, dropped>>
    /\ UNCHANGED treeVars
    /\ UNCHANGED stackVars

\* FlexBarrier::release(): ret = m_func(); if (ret >= 0) m_nThreads = ret;
FlexFunc(t) ==
    /\ pc[t] = "rel_func"
    /\ m_nThreads' = IF m_func >= 0 THEN m_func ELSE m_nThreads
    /\ invoked' = invoked + 1
    /\ Goto(t, "rel_load")
    /\ UNCHANGED <<bkind, m_counter, m_numResets, m_func, m_mutex, m_condvar,
                   call, numResets, loaded, arrivals, returns, dropped>>
    /\ UNCHANGED treeVars
    /\ UNCHANGED stackVars

\* the m_nThreads.load() of `m_counter = m_nThreads.load();`
RelLoad(t) ==
    /\ pc[t] = "rel_load"
    /\ loaded' = [loaded EXCEPT ![t] = m_nThreads]
    /\ Goto(t, "rel_store")
    /\ UNCHANGED <<invoked, bkind, m_nThreads, m_counter, m_numResets, m_func, m_mutex, m_condvar,
                   call, numResets, arrivals, returns, dropped>>
    /\ UNCHANGED treeVars
    /\ UNCHANGED stackVars

\* the store of `m_counter = m_nThreads.load();`
RelStore(t) ==
    /\ pc[t] = "rel_store"
    /\ m_counter' = loaded[t]
    /\ loaded' = [loaded EXCEPT ![t] = 0]
    /\ Goto(t, "rel_inc")
    /\ UNCHANGED <<invoked, bkind, m_nThreads, m_numResets, m_func, m_mutex, m_condvar,
                   call, numResets, arrivals, returns, dropped>>
    /\ UNCHANGED treeVars
    /\ UNCHANGED stackVars

\* m_numResets++; after it a SpinLockBarrier call returns
RelInc(t) ==
    /\ pc[t] = "rel_inc"
    /\ m_numResets' = m_numResets + 1
    /\ IF bkind = "SpinLockBarrier"
       THEN Leave(t)
       ELSE Goto(t, "rel_notify") /\ UNCHANGED <<call, returns>>
    /\ UNCHANGED <<invoked, bkind, m_nThreads, m_counter, m_func, m_mutex, m_condvar,
                   numResets, loaded, arrivals, dropped>>
    /\ UNCHANGED treeVars
    /\ UNCHANGED stackVars

\* m_condvar.notify_all(): the threads blocked in wait() go on to re-lock
\* lk; the notifying thread does not hold m_mutex.  Then the call returns.
RelNotify(t) ==
    /\ pc[t] = "rel_notify"
    /\ m_condvar' = {}
    /\ pc' = [u \in Threads |->
                 IF u = t THEN "idle" ELSE IF u \in m_condvar THEN "aw_lock" ELSE pc[u]]
    /\ call' = [call EXCEPT ![t] = "none"]
    /\ returns' = [returns EXCEPT ![t] = IF call[t] = "arrive_and_wait" THEN @ + 1 ELSE @]
    /\ UNCHANGED <<invoked, bkind, m_nThreads, m_counter, m_numResets, m_func, m_mutex,
                   numResets, loaded, arrivals, dropped>>
    /\ UNCHANGED treeVars
    /\ UNCHANGED stackVars

NextBarrier ==
    \/ \E t \in Threads : ArriveAndWait(t)
    \/ \E t \in Threads : LoadResets(t)
    \/ \E t \in Threads : DecCounterWait(t)
    \/ \E t \in Threads : Spin(t)
    \/ \E t \in Threads : Lock(t)
    \/ \E t \in Threads : Pred(t)
    \/ \E t \in Threads : Wait(t)
    \/ \E t \in Threads : Unlock(t)
    \/ \E t \in Threads : ArriveAndDrop(t)
    \/ \E t \in Threads : DropThreads(t)
    \/ \E t \in Threads : DecCounterDrop(t)
    \/ \E t \in Threads : FlexFunc(t)
    \/ \E t \in Threads : RelLoad(t)
    \/ \E t \in Threads : RelStore(t)
    \/ \E t \in Threads : RelInc(t)
    \/ \E t \in Threads : RelNotify(t)

SpecBarrier == InitBarrier /\ [][NextBarrier]_vars

(***************************************************************************)
(* SpecStack: a StackContainer<T> (stackcontainer.h) constructed with      *)
(* StackContainer(N) and used through the members std::stack calls:        *)
(* push_back, pop_back and back.  T is Node.                               *)
(***************************************************************************)
\* StackContainer(size_t N) : m_data(N), m_top(0)
InitStack ==
    /\ NoTree
    /\ NoBarrier
    /\ s_N \in 0..MaxStackSize
    /\ s_data = [i \in 0..(s_N - 1) |-> Empty]
    /\ m_top = 0
    /\ s_op = "construct"
    /\ s_arg = -1
    /\ s_ret = <<>>
    /\ s_err = "none"
    /\ s_ub = FALSE
    /\ held = 0
    /\ within = TRUE
    /\ s_calls = 0

\* the process runs and has calls left to make
StackCallable == s_err = "none" /\ s_calls < MaxStackCalls

\* the record of a call on the container: by is what it adds to the number
\* of elements held
StackCalled(name, arg, r, e, u, by) ==
    /\ s_op' = name
    /\ s_arg' = arg
    /\ s_ret' = r
    /\ s_err' = e
    /\ s_ub' = u
    /\ held' = held + by
    /\ within' = (within /\ held + by >= 0 /\ held + by <= s_N)
    /\ s_calls' = s_calls + 1
    /\ UNCHANGED s_N
    /\ UNCHANGED treeVars
    /\ UNCHANGED barrierVars

\* push_back(value): m_top++; m_data[m_top] = value;  m_data[] is
\* std::vector::operator[], which does not test its index: a store outside
\* the array is not in m_data, or ends the process
PushBack(value) ==
    /\ StackCallable
    /\ m_top' = m_top + 1
    /\ IF m_top + 1 \in DOMAIN s_data
       THEN /\ s_data' = [s_data EXCEPT ![m_top + 1] = value]
            /\ StackCalled("push_back", value, <<>>, "none", FALSE, 1)
       ELSE /\ s_data' = s_data
            /\ \E e \in {"none", Terminated} :
                   StackCalled("push_back", value, <<>>, e, TRUE, 1)

\* pop_back(): m_top--;
PopBack ==
    /\ StackCallable
    /\ m_top' = m_top - 1
    /\ s_data' = s_data
    /\ StackCalled("pop_back", -1, <<>>, "none", FALSE, -1)

\* back(): return m_data[m_top];  outside the array the reference yields
\* any value, or the process is ended
Back ==
    /\ StackCallable
    /\ UNCHANGED <<m_top, s_data>>
    /\ LET arg == IF s_op = "push_back" THEN s_arg ELSE -1
       IN  IF m_top \in DOMAIN s_data
           THEN StackCalled("back", arg, <<s_data[m_top]>>, "none", FALSE, 0)
           ELSE \/ \E v \in Nodes : StackCalled("back", arg, <<v>>, "none", TRUE, 0)
                \/ StackCalled("back", arg, <<>>, Terminated, TRUE, 0)

NextStack ==
    \/ \E value \in Nodes : PushBack(value)
    \/ PopBack
    \/ Back

SpecStack == InitStack /\ [][NextStack]_vars

(***************************************************************************)
(* Reference geometry the properties are stated against: the closed forms  *)
(* of the layouts, written without the program's arithmetic.               *)
(***************************************************************************)
\* triangular layout: level L holds L+1 indices
TriLB(L) == (L * (L + 1)) \div 2
TriRB(L) == ((L + 1) * (L + 2)) \div 2 - 1
TriLevel(i) == CHOOSE L \in 0..i : TriLB(L) <= i /\ i <= TriRB(L)

\* square layout: level L holds 2L+1 indices
SqLB(L) == L * L
SqRB(L) == (L + 1) * (L + 1) - 1
SqLevel(i) == CHOOSE L \in 0..i : SqLB(L) <= i /\ i <= SqRB(L)

\* BFS level of a perfect binary tree: the L with 2^L - 1 <= i <= 2^(L+1) - 2
BinLevel(i) == CHOOSE L \in 0..i : 2^L - 1 <= i /\ i <= 2^(L + 1) - 2

LevelOf(k, i) ==
    CASE k = "bTree" -> BinLevel(i)
      [] k = "recombinantBTree" -> TriLevel(i)
      [] k = "recombinantTTree" -> SqLevel(i)

(***************************************************************************)
(* C1                                                                      *)
(***************************************************************************)
\* C1: a tree of depth d holds 2^(d+1)-1 (binary), (d+1)(d+2)/2 (binomial)
\* or (d+1)^2 (trinomial) slots, all empty right after construction, and
\* totalElems() keeps that value after every insert, remove, operator[]
\* write, copySubTree, copySubTreeLeft and copySubTreeRight.
C1_NodeCount ==
    /\ totalElems = (CASE kind = "bTree" -> 2^(m_depth + 1) - 1
                       [] kind = "recombinantBTree" -> ((m_depth + 1) * (m_depth + 2)) \div 2
                       [] kind = "recombinantTTree" -> (m_depth + 1) * (m_depth + 1))
    /\ DOMAIN m_data = 0..(totalElems - 1)
    /\ op = "construct" => \A i \in Indices : m_data[i] = Empty

\* a binomial tree of depth 2 whose slots a propagation call has just changed
C1_Witness ==
    /\ kind = "recombinantBTree"
    /\ m_depth = 2
    /\ op = "copySubTreeRight"
    /\ err = "none"
    /\ m_data # pre
    /\ totalElems = 6

(***************************************************************************)
(* C2                                                                      *)
(***************************************************************************)
\* C2: in the binomial tree level(i) = round(sqrt(1+2i) - 1) is, for every
\* valid i, the unique L with L(L+1)/2 <= i <= (L+1)(L+2)/2 - 1 and the level
\* the brute-force count finds; left_boundary(level(i)) <= i <=
\* right_boundary(level(i)); and the levels tile the array: left_boundary(0)
\* = 0, right_boundary(L) + 1 = left_boundary(L+1), right_boundary(depth) =
\* totalElems - 1.
C2_BinomialLevel ==
    kind = "recombinantBTree" =>
        /\ (op = "level" =>
               /\ err = "none"
               /\ ret = <<TriLevel(indS)>>
               /\ ret = <<brute_force_level(indS)>>
               /\ recombinantBTree_left_boundary(ret[1]) <= indS
               /\ indS <= recombinantBTree_right_boundary(ret[1]))
        /\ (op = "left_boundary" => ret = <<TriLB(indS)>>)
        /\ (op = "right_boundary" => ret = <<TriRB(indS)>>)
        /\ \A i \in Indices :
               /\ recombinantBTree_level(i) = brute_force_level(i)
               /\ \A L \in 0..m_depth :
                      (recombinantBTree_left_boundary(L) <= i /\ i <= recombinantBTree_right_boundary(L))
                          <=> L = recombinantBTree_level(i)
        /\ recombinantBTree_left_boundary(0) = 0
        /\ \A L \in 0..m_depth :
               recombinantBTree_right_boundary(L) + 1 = recombinantBTree_left_boundary(L + 1)
        /\ recombinantBTree_right_boundary(m_depth) = totalElems - 1

\* level() was asked for the last index of a binomial tree of depth >= 3
C2_Witness ==
    /\ kind = "recombinantBTree"
    /\ m_depth >= 3
    /\ op = "level"
    /\ indS = totalElems - 1
    /\ ret = <<m_depth>>

(***************************************************************************)
(* C3                                                                      *)
(***************************************************************************)
\* C3: in the trinomial tree level(i) = floor(sqrt(i)) is, for every valid
\* i, the unique L with L^2 <= i <= (L+1)^2 - 1, level_size(i) = 2 level(i)
\* + 1 is the number of indices on that level, and the levels tile
\* [0, (depth+1)^2).
C3_TrinomialLevel ==
    kind = "recombinantTTree" =>
        /\ (op = "level" => err = "none" /\ ret = <<SqLevel(indS)>>)
        /\ (op = "level_size" =>
               /\ ret = <<2 * SqLevel(indS) + 1>>
               /\ ret = <<Cardinality({j \in Indices : SqLevel(j) = SqLevel(indS)})>>)
        /\ (op = "left_boundary" => ret = <<SqLB(indS)>>)
        /\ (op = "right_boundary" => ret = <<SqRB(indS)>>)
        /\ \A i \in Indices :
               \A L \in 0..m_depth :
                   (recombinantTTree_left_boundary(L) <= i /\ i <= recombinantTTree_right_boundary(L))
                       <=> L = recombinantTTree_level(i)
        /\ \A i \in Indices :
               recombinantTTree_level_size(i)
                   = recombinantTTree_right_boundary(recombinantTTree_level(i))
                     - recombinantTTree_left_boundary(recombinantTTree_level(i)) + 1
        /\ recombinantTTree_left_boundary(0) = 0
        /\ \A L \in 0..m_depth :
               recombinantTTree_right_boundary(L) + 1 = recombinantTTree_left_boundary(L + 1)
        /\ recombinantTTree_right_boundary(m_depth) = totalElems - 1

\* level_size() was asked for the first index of level 3 of a trinomial tree
C3_Witness ==
    /\ kind = "recombinantTTree"
    /\ m_depth >= 3
    /\ op = "level_size"
    /\ indS = 9
    /\ ret = <<7>>

(***************************************************************************)
(* C4                                                                      *)
(***************************************************************************)
\* a binomial index off both boundaries of its level, with both children in range
C4_Inner(i) ==
    /\ i \in Indices
    /\ i # TriLB(TriLevel(i))
    /\ i # TriRB(TriLevel(i))
    /\ TriLevel(i) < m_depth

\* C4 as stated: in the binomial tree, for every index i off both boundaries
\* of its level whose children are in range, goUpLeft(goDownLeft(i)) = i and
\* goUpRight(goDownRight(i)) = i.
C4_Original ==
    (kind = "recombinantBTree" /\ C4_Inner(pind)) =>
        /\ (pop = "goDownLeft" /\ op = "goUpLeft") => (err = "none" /\ ret = <<pind>>)
        /\ (pop = "goDownRight" /\ op = "goUpRight") => (err = "none" /\ ret = <<pind>>)

\* C4 (amended): for such an i both round trips succeed and return the
\* neighbour of i on its level: goUpLeft(goDownLeft(i)) = i - 1 and
\* goUpRight(goDownRight(i)) = i + 1.
C4_RoundTripNeighbour ==
    (kind = "recombinantBTree" /\ C4_Inner(pind)) =>
        /\ (pop = "goDownLeft" /\ op = "goUpLeft") =>
               (perr = "none" /\ pret = <<indS>> /\ err = "none" /\ ret = <<pind - 1>>)
        /\ (pop = "goDownRight" /\ op = "goUpRight") =>
               (perr = "none" /\ pret = <<indS>> /\ err = "none" /\ ret = <<pind + 1>>)

\* goUpRight was applied to goDownRight(4) in a tree of depth >= 3
C4_Witness ==
    /\ kind = "recombinantBTree"
    /\ C4_Inner(pind)
    /\ pind = 4
    /\ pop = "goDownRight"
    /\ pret = <<indS>>
    /\ op = "goUpRight"
    /\ ret = <<5>>

(***************************************************************************)
(* C5                                                                      *)
(***************************************************************************)
\* a trinomial index that is neither the first nor the last of its level,
\* with its children in range
C5_Inner(i) ==
    /\ i \in Indices
    /\ i # SqLB(SqLevel(i))
    /\ i # SqRB(SqLevel(i))
    /\ SqLevel(i) < m_depth

\* C5 as stated: in the trinomial tree, for every non-boundary index i whose
\* children are in range, goUpLeft(goDownLeft(i)) = i, goUpCenter(
\* goDownCenter(i)) = i and goUpRight(goDownRight(i)) = i.
C5_Original ==
    (kind = "recombinantTTree" /\ C5_Inner(pind)) =>
        /\ (pop = "goDownLeft" /\ op = "goUpLeft") => (err = "none" /\ ret = <<pind>>)
        /\ (pop = "goDownCenter" /\ op = "goUpCenter") => (err = "none" /\ ret = <<pind>>)
        /\ (pop = "goDownRight" /\ op = "goUpRight") => (err = "none" /\ ret = <<pind>>)

\* C5 (amended): for such an i, goUpCenter(goDownCenter(i)) = i;
\* goUpLeft(goDownLeft(i)) = i - 2, or the left-boundary error when i is the
\* second index of its level; goUpRight(goDownRight(i)) = i + 2, or the
\* right-boundary error when i is the last but one of its level.
C5_RoundTrips ==
    (kind = "recombinantTTree" /\ C5_Inner(pind)) =>
        /\ (pop = "goDownCenter" /\ op = "goUpCenter") =>
               (pret = <<indS>> /\ err = "none" /\ ret = <<pind>>)
        /\ (pop = "goDownLeft" /\ op = "goUpLeft") =>
               /\ pret = <<indS>>
               /\ IF pind = SqLB(SqLevel(pind)) + 1
                  THEN err = ErrLeftBoundary /\ ret = <<>>
                  ELSE err = "none" /\ ret = <<pind - 2>>
        /\ (pop = "goDownRight" /\ op = "goUpRight") =>
               /\ pret = <<indS>>
               /\ IF pind = SqRB(SqLevel(pind)) - 1
                  THEN err = ErrRightBoundary /\ ret = <<>>
                  ELSE err = "none" /\ ret = <<pind + 2>>

\* goUpCenter was applied to goDownCenter(6), the middle of level 2
C5_Witness ==
    /\ kind = "recombinantTTree"
    /\ C5_Inner(pind)
    /\ pind = 6
    /\ pop = "goDownCenter"
    /\ pret = <<12>>
    /\ indS = 12
    /\ op = "goUpCenter"
    /\ ret = <<6>>

(***************************************************************************)
(* C6                                                                      *)
(***************************************************************************)
\* C6: in the binomial tree, for every index i on a level L > 0, goUpLeft(i)
\* raises the boundary error exactly when i = left_boundary(L) and otherwise
\* returns i - level_size(i); goUpRight(i) raises it exactly when i =
\* right_boundary(L) and otherwise returns i - level_size(i) + 1; a returned
\* index lies on level L - 1; goUp(i) behaves as goUpLeft(i).  (Depth 2:
\* level(3) = 2, goUpLeft(3) fails, goUpRight(3) = 1.)
C6_BinomialParents ==
    (kind = "recombinantBTree" /\ indS \in Indices /\ TriLevel(indS) > 0) =>
        /\ op \in {"goUpLeft", "goUp"} =>
               IF indS = TriLB(TriLevel(indS))
               THEN err = ErrLeftBoundary /\ ret = <<>>
               ELSE /\ err = "none"
                    /\ ret = <<indS - (TriLevel(indS) + 1)>>
                    /\ ret[1] \in Indices
                    /\ TriLevel(ret[1]) = TriLevel(indS) - 1
        /\ op = "goUpRight" =>
               IF indS = TriRB(TriLevel(indS))
               THEN err = ErrRightBoundary /\ ret = <<>>
               ELSE /\ err = "none"
                    /\ ret = <<indS - (TriLevel(indS) + 1) + 1>>
                    /\ ret[1] \in Indices
                    /\ TriLevel(ret[1]) = TriLevel(indS) - 1
        /\ (op = "level" /\ indS = 3) => ret = <<2>>
        /\ (op = "goUpRight" /\ indS = 3) => ret = <<1>>

\* goUpLeft(3) has failed on a binomial tree of depth 2
C6_Witness ==
    /\ kind = "recombinantBTree"
    /\ m_depth = 2
    /\ op = "goUpLeft"
    /\ indS = 3
    /\ err = ErrLeftBoundary

(***************************************************************************)
(* C7                                                                      *)
(***************************************************************************)
\* C7: in the trinomial tree, for every index i on a level L >= 1,
\* goUpLeft(i) raises the boundary error exactly for the two leftmost indices
\* of the level, goUpRight(i) exactly for the two rightmost and goUpCenter(i)
\* exactly for the first and the last; otherwise they return i -
\* level_size(i), i - level_size(i) + 2 and i - level_size(i) + 1, a valid
\* index on level L - 1.
C7_TrinomialParents ==
    (kind = "recombinantTTree" /\ indS \in Indices /\ SqLevel(indS) >= 1) =>
        LET L == SqLevel(indS)
            size == 2 * L + 1
            OnParentLevel == err = "none" /\ ret[1] \in Indices /\ SqLevel(ret[1]) = L - 1
        IN  /\ op = "goUpLeft" =>
                   IF indS \in {SqLB(L), SqLB(L) + 1}
                   THEN err = ErrLeftBoundary /\ ret = <<>>
                   ELSE ret = <<indS - size>> /\ OnParentLevel
            /\ op = "goUpRight" =>
                   IF indS \in {SqRB(L), SqRB(L) - 1}
                   THEN err = ErrRightBoundary /\ ret = <<>>
                   ELSE ret = <<indS - size + 2>> /\ OnParentLevel
            /\ op = "goUpCenter" =>
                   IF indS \in {SqLB(L), SqRB(L)}
                   THEN err = ErrCenterBoundary /\ ret = <<>>
                   ELSE ret = <<indS - size + 1>> /\ OnParentLevel

\* goUpLeft(5) has failed: 5 is the second index of level 2
C7_Witness ==
    /\ kind = "recombinantTTree"
    /\ op = "goUpLeft"
    /\ indS = 5
    /\ err = ErrLeftBoundary

(***************************************************************************)
(* C8                                                                      *)
(***************************************************************************)
\* C8: in the binomial tree, copySubTreeLeft(src, dst) and
\* copySubTreeRight(src, dst) with level(src) # level(dst) raise the
\* level-mismatch error and leave every slot as it was before the call.
C8_LevelMismatch ==
    (/\ kind = "recombinantBTree"
     /\ op \in {"copySubTreeLeft", "copySubTreeRight"}
     /\ TriLevel(indS) # TriLevel(indT)) =>
        /\ err = ErrSameLevel
        /\ ret = <<>>
        /\ m_data = pre

\* copySubTreeRight(1, 3) was refused on a tree whose slot 1 is not empty
C8_Witness ==
    /\ kind = "recombinantBTree"
    /\ op = "copySubTreeRight"
    /\ indS = 1
    /\ indT = 3
    /\ pre[1] # Empty
    /\ err = ErrSameLevel

(***************************************************************************)
(* C9                                                                      *)
(***************************************************************************)
\* C9: copySubTree(indS, indT), on a binary tree and as inherited by the
\* recombinant trees, called with source and target on different levels
\* fails with a domain error and does not modify any slot.
C9_CopySubTreeLevelMismatch ==
    (op = "copySubTree" /\ LevelOf(kind, indS) # LevelOf(kind, indT)) =>
        /\ err # "none"
        /\ m_data = pre

C20_ReturnsWritten ==
    (/\ kind = "recombinantBTree"
     /\ op \in {"copySubTreeLeft", "copySubTreeRight"}
     /\ err = "none") =>
        /\ \A i \in Indices :
               m_data[i] # pre[i] => \E n \in 1..Len(ret) : ret[n] = i
        /\ \A n \in 1..Len(ret) :
               \/ \E l \in TriLevel(indS)..m_depth :
                      op = "copySubTreeLeft" /\ ret[n] = TriRB(l)
               \/ \E l \in TriLevel(indS)..m_depth :
                      /\ op = "copySubTreeRight"
                      /\ TriLB(l) + (indS - TriLB(TriLevel(indS))) < ret[n]
                      /\ ret[n] <= TriRB(l)

(***************************************************************************)
(* C12                                                                     *)
(***************************************************************************)
\* the smallest index whose slot holds v
FirstMatch(data, v) ==
    CHOOSE i \in DOMAIN data : data[i] = v /\ \A j \in DOMAIN data : j < i => data[j] # v

\* C12: every operation that addresses a slot outside [0, totalElems) ends
\* in an error and neither reads nor writes outside the array: insert,
\* remove and operator[] with ind >= totalElems, and leftchild, rightchild
\* and parent of a node whose child or parent index does not exist (a child
\* of a node of the deepest level, the parent of the root).
C12_OutOfRange ==
    /\ (op \in {"insert", "remove", "operator[]"} /\ indS >= totalElems) =>
           /\ err \notin {"none", Terminated}
           /\ ub = FALSE
           /\ m_data = pre
    /\ (/\ op \in {"leftchild", "rightchild", "parent"}
        /\ \E i \in Indices : pre[i] = indS) =>
           LET i == FirstMatch(pre, indS)
               missing == CASE op = "leftchild" -> goDownLeft(kind, i) >= totalElems
                            [] op = "rightchild" -> goDownRight(kind, i) >= totalElems
                            [] op = "parent" -> i = 0
           IN  missing => /\ err \notin {"none", Terminated}
                          /\ ub = FALSE

(***************************************************************************)
(* C13                                                                     *)
(***************************************************************************)
\* C13: node2Ind(v) returns the smallest index whose slot holds v, and
\* raises the node-not-found error, the tree unchanged, when no slot holds
\* v; parent(v), leftchild(v) and rightchild(v) apply goUp, goDownLeft and
\* goDownRight to exactly that index.
C13_FirstMatch ==
    (op \in {"node2Ind", "parent", "leftchild", "rightchild"}) =>
        /\ m_data = pre
        /\ IF \A i \in Indices : pre[i] # indS
           THEN err = ErrNotInTree /\ ret = <<>>
           ELSE LET i == FirstMatch(pre, indS)
                IN  CASE op = "node2Ind" -> err = "none" /\ ret = <<i>>
                      [] op = "parent" ->
                            IF goUp(kind, i).err # "none"
                            THEN err = goUp(kind, i).err /\ ret = <<>>
                            ELSE <<indT>> = goUp(kind, i).val
                      [] op = "leftchild" -> indT = goDownLeft(kind, i)
                      [] op = "rightchild" -> indT = goDownRight(kind, i)

\* leftchild(Node{}) on a depth-2 binary tree whose root is taken: the first
\* empty slot is 1, of several, and the call returned a reference to slot 3
C13_Witness ==
    /\ kind = "bTree"
    /\ m_depth = 2
    /\ op = "leftchild"
    /\ indS = Empty
    /\ pre[0] # Empty
    /\ pre[2] = Empty
    /\ err = "none"
    /\ ret = <<3>>

(***************************************************************************)
(* C14                                                                     *)
(***************************************************************************)
\* the pairs <<s.p, t.p>> over the paths p of left and right steps for which
\* both are below n, in the binary layout (children 2i + 1 and 2i + 2)
RECURSIVE PathPairs(_, _, _)
PathPairs(s, t, n) ==
    IF s >= n \/ t >= n
    THEN {}
    ELSE {<<s, t>>} \cup PathPairs(2 * s + 1, 2 * t + 1, n)
                   \cup PathPairs(2 * s + 2, 2 * t + 2, n)

\* the indices of the subtree rooted at t
SubTree(t, n) == {p[2] : p \in PathPairs(t, t, n)}

\* C14: in a binary tree, for distinct s, t on the same level, after
\* copySubTree(s, t) every path p with s.p and t.p in range has data'[t.p] =
\* data[s.p] (the pre-call value), and every slot outside the subtree rooted
\* at t is unchanged.
C14_CopySubTree ==
    (/\ kind = "bTree"
     /\ op = "copySubTree"
     /\ indS # indT
     /\ BinLevel(indS) = BinLevel(indT)) =>
        /\ err = "none"
        /\ \A p \in PathPairs(indS, indT, totalElems) : m_data[p[2]] = pre[p[1]]
        /\ \A i \in Indices \ SubTree(indT, totalElems) : m_data[i] = pre[i]

\* copySubTree(1, 2) on a depth-2 tree has copied slot 4, the right child of
\* the source, into slot 6
C14_Witness ==
    /\ kind = "bTree"
    /\ m_depth = 2
    /\ op = "copySubTree"
    /\ indS = 1
    /\ indT = 2
    /\ pre[4] # Empty
    /\ pre[6] = Empty
    /\ m_data[6] = pre[4]

(***************************************************************************)
(* C15                                                                     *)
(***************************************************************************)
\* the subtree rooted at t in left-first pre-order
RECURSIVE PreOrder(_, _)
PreOrder(t, n) ==
    IF t >= n THEN <<>> ELSE <<t>> \o PreOrder(2 * t + 1, n) \o PreOrder(2 * t + 2, n)

\* C15: in a binary tree copySubTree(s, t) returns the indices of the subtree
\* rooted at t in left-first pre-order, starting with t, each written index
\* once; copySubTree(s, s) leaves every slot unchanged; on a depth-3 tree
\* copySubTree(0, 0) returns 0,1,3,7,8,4,9,10,2,5,11,12,6,13,14.
C15_PreOrder ==
    (kind = "bTree" /\ op = "copySubTree") =>
        /\ ret = PreOrder(indT, totalElems)
        /\ indS = indT => m_data = pre
        /\ (m_depth = 3 /\ indS = 0 /\ indT = 0) =>
               ret = <<0, 1, 3, 7, 8, 4, 9, 10, 2, 5, 11, 12, 6, 13, 14>>

(***************************************************************************)
(* C16                                                                     *)
(***************************************************************************)
\* C16: for every pair of valid indices s, t of a binary tree, on the same
\* level or not, copySubTree(s, t) terminates (it returns, having visited
\* no more targets than the tree has slots) and reads and writes only
\* indices in [0, totalElems).
C16_CopyInRange ==
    (kind = "bTree" /\ op = "copySubTree") =>
        /\ err = "none"
        /\ ub = FALSE
        /\ Len(ret) >= 1
        /\ Len(ret) <= totalElems
        /\ \A n \in 1..Len(ret) : ret[n] \in Indices

\* copySubTree(0, 1) on a depth-1 tree: the target is one level below the
\* source and its children 3 and 4 do not exist; only slot 1 was written
C16_Witness ==
    /\ kind = "bTree"
    /\ m_depth = 1
    /\ op = "copySubTree"
    /\ indS = 0
    /\ indT = 1
    /\ pre[0] # Empty
    /\ m_data[1] = pre[0]
    /\ ret = <<1>>
    /\ ub = FALSE

(***************************************************************************)
(* C17                                                                     *)
(***************************************************************************)
\* C17: for SpinLockBarrier, Barrier and FlexBarrier (with a completion
\* function that keeps the number of threads) constructed for N threads that
\* each call arrive_and_wait once per round, in every interleaving no r-th
\* call of arrive_and_wait has returned before every thread made its r-th
\* arrival; a thread that re-enters for round r + 1 is not released by the
\* release of round r.
C17_BarrierSafety ==
    (/\ bkind \in BarrierKinds
     /\ dropped = {}
     /\ m_func \in {-1, NThreads}) =>
        \A t \in Threads, u \in Threads : returns[t] <= arrivals[u]

\* thread 1 released round 1, returned and arrived for round 2, where it
\* spins, while thread 2 has not yet left round 1
C17_Witness ==
    /\ bkind = "SpinLockBarrier"
    /\ dropped = {}
    /\ pc[1] = "aw_spin"
    /\ arrivals[1] = 2
    /\ returns[1] = 1
    /\ pc[2] = "aw_spin"
    /\ arrivals[2] = 1
    /\ returns[2] = 0
    /\ m_numResets = 1

(***************************************************************************)
(* C18                                                                     *)
(***************************************************************************)
\* C18: in the condition-variable Barrier, once the last thread of a round
\* has arrived every thread blocked in arrive_and_wait for that round
\* returns: the increment of m_numResets and the notify_all of the releasing
\* thread are never missed by a waiter that has evaluated its predicate.
\* Without spurious wake-ups a blocked thread goes on only through a
\* notify_all, so a thread blocked in wait() whose round is released has a
\* notify_all still to come.
C18_BarrierLiveness ==
    bkind = "Barrier" =>
        \A t \in Threads :
            (pc[t] = "aw_blocked" /\ Released(t)) =>
                \E u \in Threads : pc[u] = "rel_notify"

(***************************************************************************)
(* C19                                                                     *)
(***************************************************************************)
\* the statements of the release, from the decrement that found 0 on
ReleasePcs == {"rel_func", "rel_load", "rel_store", "rel_inc", "rel_notify"}

\* thread u dropped out and its drop has been counted in m_counter
Gone(u) == u \in dropped /\ pc[u] \notin {"ad_threads", "ad_dec"}

\* the rounds in which every thread still taking part has arrived
Completed ==
    {r \in 1..MaxRounds :
        /\ \E u \in Threads : arrivals[u] >= r
        /\ \A u \in Threads : arrivals[u] >= r \/ Gone(u)}

\* C19: arrive_and_drop counts as an arrival of the current round, never
\* blocks, and lowers the number of threads for good: with k of the N
\* threads dropped out, m_nThreads is N - k and every later round is
\* released exactly when the N - k others have arrived, however the drop
\* interleaves with calls of arrive_and_wait.
C19_ArriveAndDrop ==
    (bkind \in BarrierKinds /\ m_func = -1) =>
        /\ \A t \in Threads :
               call[t] = "arrive_and_drop" => pc[t] \in {"ad_threads", "ad_dec"} \cup ReleasePcs
        /\ m_nThreads = NThreads - Cardinality({t \in dropped : pc[t] # "ad_threads"})
        /\ \A t \in Threads, u \in Threads : returns[t] <= arrivals[u] \/ Gone(u)
        /\ m_numResets <= Cardinality(Completed)
        /\ (\A t \in Threads : pc[t] \notin ReleasePcs) => m_numResets = Cardinality(Completed)

\* thread 2 dropped out in round 1; round 2 was released by the arrival of
\* thread 1 alone, which has returned from it
C19_Witness ==
    /\ bkind = "Barrier"
    /\ dropped = {2}
    /\ arrivals[2] = 1
    /\ pc[2] = "idle"
    /\ arrivals[1] = 2
    /\ returns[1] = 2
    /\ m_nThreads = 1
    /\ m_numResets = 2

(***************************************************************************)
(* C21                                                                     *)
(***************************************************************************)
\* C21: in the binary tree goDownLeft(i) = 2i + 1, goDownRight(i) = 2i + 2
\* and goUp(i) = (i - 1) / 2 for i > 0, so that goUp(goDownLeft(i)) = i and
\* goUp(goDownRight(i)) = i, distinct nodes never share a child, and the
\* root is a fixed point of goUp, goUp(0) = 0, without a wrap-around to a
\* huge index; in trees.h and in btree.h.
C21_BinaryTransforms ==
    kind = "bTree" =>
        /\ op = "goDownLeft" => ret = <<2 * indS + 1>>
        /\ op = "goDownRight" => ret = <<2 * indS + 2>>
        /\ (op \in {"goUp", "btree.h:goUp"} /\ indS > 0) => ret = <<(indS - 1) \div 2>>
        /\ (op \in {"goUp", "btree.h:goUp"} /\ pop \in {"goDownLeft", "goDownRight"}) =>
               ret = <<pind>>
        /\ (op \in {"goUp", "btree.h:goUp"} /\ indS = 0) => ret = <<0>>
        /\ \A i \in Indices, j \in Indices :
               i # j => {goDownLeft(kind, i), goDownRight(kind, i)}
                            \cap {goDownLeft(kind, j), goDownRight(kind, j)} = {}

(***************************************************************************)
(* C22                                                                     *)
(***************************************************************************)
\* C22: in the binomial tree every index i on a level L >= 1 off both
\* boundaries has exactly two parents, goUpLeft(i) and goUpRight(i) =
\* goUpLeft(i) + 1, both on level L - 1, with goDownRight(goUpLeft(i)) = i
\* and goDownLeft(goUpRight(i)) = i; for every index i,
\* goUpRight(goDownLeft(i)) = i and goUpLeft(goDownRight(i)) = i without a
\* boundary error; and neighbours on a level share a child:
\* goDownRight(i) = goDownLeft(i + 1).
C22_Recombination ==
    kind = "recombinantBTree" =>
        /\ (/\ op \in {"goUpLeft", "goUpRight"}
            /\ TriLevel(indS) >= 1
            /\ indS # TriLB(TriLevel(indS))
            /\ indS # TriRB(TriLevel(indS))) =>
               /\ err = "none"
               /\ ret[1] \in Indices
               /\ TriLevel(ret[1]) = TriLevel(indS) - 1
               /\ op = "goUpRight" => ret = <<recombinantBTree_goUpLeft(indS).val[1] + 1>>
               /\ {p \in Indices : indS \in {goDownLeft(kind, p), goDownRight(kind, p)}}
                      = {recombinantBTree_goUpLeft(indS).val[1],
                         recombinantBTree_goUpRight(indS).val[1]}
        /\ (pop = "goUpLeft" /\ op = "goDownRight") => ret = <<pind>>
        /\ (pop = "goUpRight" /\ op = "goDownLeft") => ret = <<pind>>
        /\ (pop = "goDownLeft" /\ op = "goUpRight") => (err = "none" /\ ret = <<pind>>)
        /\ (pop = "goDownRight" /\ op = "goUpLeft") => (err = "none" /\ ret = <<pind>>)
        /\ (op = "goDownRight" /\ indS # TriRB(TriLevel(indS))) =>
               ret = <<goDownLeft(kind, indS + 1)>>

\* goDownRight was applied to goUpLeft(4) = 1 and gave 4 back
C22_Witness ==
    /\ kind = "recombinantBTree"
    /\ pop = "goUpLeft"
    /\ pind = 4
    /\ pret = <<1>>
    /\ op = "goDownRight"
    /\ indS = 1
    /\ ret = <<4>>

(***************************************************************************)
(* C23: on a binomial tree, for every content and every pair of indices    *)
(* indS, indT of one level, the public copySubTreeLeft(indS, indT) and the *)
(* recursive overload started with an empty visited set leave the same     *)
(* array: what the public one left is what the recursive one computes from *)
(* the array on entry, and what the recursive one left is an outcome of    *)
(* the public one.                                                         *)
(***************************************************************************)
C23_KeepEarliest ==
    kind = "recombinantBTree" =>
        /\ (op = "copySubTreeLeft" /\ err = "none") =>
               m_data = copySubTreeLeft_rec(pre, indS, indT, <<>>, {}).data
        /\ (op = "copySubTreeLeft:rec" /\ TriLevel(indS) = TriLevel(indT)) =>
               \E o \in copySubTreeLeft_call(pre, indS, indT) : o.data = m_data

(***************************************************************************)
(* C24: the same for the public copySubTreeRight(indS, indT) and the       *)
(* recursive overload, which overwrites every target it reaches.           *)
(***************************************************************************)
C24_KeepLatest ==
    kind = "recombinantBTree" =>
        /\ (op = "copySubTreeRight" /\ err = "none") =>
               m_data = copySubTreeRight_rec(pre, indS, indT, <<>>).data
        /\ (op = "copySubTreeRight:rec" /\ TriLevel(indS) = TriLevel(indT)) =>
               \E o \in copySubTreeRight_call(pre, indS, indT) : o.data = m_data

(***************************************************************************)
(* C25: on a binomial tree of depth d, the descents without a visited set  *)
(* (the inherited copySubTree and the recursive copySubTreeRight), started *)
(* at the root, store exactly 2^(d+1) - 1 times and return as many         *)
(* indices, although the tree has (d+1)(d+2)/2 slots; from depth 2 on some *)
(* index is returned, and so written, more than once.                      *)
(***************************************************************************)
C25_NaiveWrites ==
    (/\ kind = "recombinantBTree"
     /\ op \in {"copySubTree", "copySubTreeRight:rec"}
     /\ indS = 0
     /\ indT = 0) =>
        /\ Len(writes) = pow2(m_depth + 1) - 1
        /\ ret = writes
        /\ Cardinality(DOMAIN m_data) = ((m_depth + 1) * (m_depth + 2)) \div 2
        /\ {writes[i] : i \in DOMAIN writes} = DOMAIN m_data
        /\ m_depth >= 2 =>
               /\ Len(writes) > Cardinality(DOMAIN m_data)
               /\ \E i, j \in DOMAIN ret : i < j /\ ret[i] = ret[j]

C25_Witness ==
    /\ kind = "recombinantBTree"
    /\ op = "copySubTreeRight:rec"
    /\ indS = 0
    /\ indT = 0
    /\ m_depth = 2
    /\ ret = <<0, 1, 3, 4, 2, 4, 5>>

(***************************************************************************)
(* C26: on a binomial tree, a call of the public copySubTreeLeft or        *)
(* copySubTreeRight with indS and indT on one level ends, has stored to no *)
(* slot twice, has stored only to slots of the array on the level of indS  *)
(* or below, so at most totalElems - left_boundary(level(indS)) times, and *)
(* has changed no slot it did not store to.                                *)
(***************************************************************************)
C26_BoundedWrites ==
    (/\ kind = "recombinantBTree"
     /\ op \in {"copySubTreeLeft", "copySubTreeRight"}
     /\ TriLevel(indS) = TriLevel(indT)) =>
        /\ err \in {"none", Terminated}
        /\ \A i, j \in DOMAIN writes : i # j => writes[i] # writes[j]
        /\ \A i \in DOMAIN writes :
               /\ writes[i] \in DOMAIN m_data
               /\ TriLevel(writes[i]) >= TriLevel(indS)
        /\ Len(writes) <= Cardinality(DOMAIN m_data) - TriLB(TriLevel(indS))
        /\ \A i \in DOMAIN m_data :
               m_data[i] # pre[i] => \E n \in DOMAIN writes : writes[n] = i

\* copySubTreeRight(1, 2) on a depth-2 tree stored to slots 2, 4 and 5 and
\* changed them
C26_Witness ==
    /\ kind = "recombinantBTree"
    /\ m_depth = 2
    /\ op = "copySubTreeRight"
    /\ indS = 1
    /\ indT = 2
    /\ writes = <<2, 4, 5>>
    /\ m_data # pre

(***************************************************************************)
(* C28: on a binomial tree, a call copySubTreeLeft(indS, indT) with indS   *)
(* and indT on one level, the root pair (0, 0) included, addresses m_data  *)
(* only inside [0, totalElems) and returns.                                *)
(***************************************************************************)
C28_LeftInRange ==
    (/\ kind = "recombinantBTree"
     /\ op = "copySubTreeLeft"
     /\ TriLevel(indS) = TriLevel(indT)) =>
        /\ ub = FALSE
        /\ err = "none"
        /\ \A i \in DOMAIN writes : writes[i] \in DOMAIN m_data

C30_StackInRange ==
    (s_op \in {"push_back", "pop_back", "back"} /\ within) =>
        /\ s_op \in {"push_back", "pop_back"} => (s_ub = FALSE /\ s_err = "none")
        /\ (s_op = "back" /\ s_arg # -1) =>
               (s_ub = FALSE /\ s_err = "none" /\ s_ret = <<s_arg>>)

(***************************************************************************)
(* C27: in a FlexBarrier the completion callable m_func is invoked once    *)
(* for every round, by the thread whose arrival (in arrive_and_wait or     *)
(* arrive_and_drop) brought m_counter to 0, and before the round is        *)
(* released by the increment of m_numResets: the invocations number the    *)
(* releases done plus the releases under way between the invocation and    *)
(* the increment; while the callable is about to be invoked in a run where *)
(* it keeps the number of threads, every thread has arrived for the round  *)
(* or dropped out and none has returned from it.  The invocation sets      *)
(* m_nThreads to its return value r when r >= 0 and leaves it when r is    *)
(* -1, and the reset that follows sets m_counter accordingly.              *)
(***************************************************************************)
C27_Invocations ==
    bkind = "FlexBarrier" =>
        /\ invoked = m_numResets
                      + Cardinality({t \in Threads :
                                        pc[t] \in {"rel_load", "rel_store", "rel_inc"}})
        /\ \A t \in Threads :
               pc[t] = "rel_func" =>
                   /\ call[t] \in {"arrive_and_wait", "arrive_and_drop"}
                   /\ (m_func = -1 \/ (m_func = NThreads /\ dropped = {})) =>
                          /\ \A u \in Threads : arrivals[u] >= m_numResets + 1 \/ Gone(u)
                          /\ \A u \in Threads : returns[u] <= m_numResets
        /\ \A t \in Threads :
               (pc[t] = "rel_inc" /\ m_numResets = 0) =>
                   /\ m_nThreads = IF m_func >= 0 THEN m_func
                                                 ELSE NThreads - Cardinality(dropped)
                   /\ m_counter = m_nThreads

C27_Completion ==
    /\ []C27_Invocations
    /\ [][invoked' = invoked + 1 =>
              m_nThreads' = IF m_func >= 0 THEN m_func ELSE m_nThreads]_vars

\* the callable returned 1 in round 1, invoked by thread 2; thread 1 waited,
\* was released and has returned; one thread takes part from then on
C27_Witness ==
    /\ bkind = "FlexBarrier"
    /\ m_func = 1
    /\ invoked = 1
    /\ m_numResets = 1
    /\ m_nThreads = 1
    /\ m_counter = 1
    /\ returns[1] = 1
    /\ arrivals[2] = 1
    /\ call[2] = "arrive_and_wait"
    /\ pc[2] = "rel_notify"

====
